---- MODULE Spec2Model ----
(***************************************************************************)
(* VM process lifecycle of Qemu-Manager-PyQT.                              *)
(*                                                                         *)
(* Three programs share the state below:                                   *)
(*   Spec        the application started by main.py: QEMUManagerUI on top  *)
(*               of QEMUExecutorImpl and the JSON VM repository;           *)
(*   SpecService QEMUApplicationService on top of the same executor and    *)
(*               repository (it is not wired into the window);             *)
(*   SpecGui     the stand-alone window QemuGUI of qemu_domain/qemu_gui.py *)
(*               with its own running_processes dictionary.                *)
(* An OS process is a record of the process table procs; a Popen handle is *)
(* the index of its process in that table.                                 *)
(*                                                                         *)
(* The pure functions are checked under specifications of their own:       *)
(*   SpecBuilder  the two command builders and the acceleration setting;   *)
(*   SpecValidate validate_vm_name and config.is_valid_vm_name;            *)
(*   SpecCreate   create_vm and start_vm of the service with arbitrary     *)
(*                names and resource values.                               *)
(* Further specifications follow one concern each:                        *)
(*   SpecStatus   the persisted status of one VM through the service;      *)
(*   SpecForm     the configuration form: edit, save, select, clear;       *)
(*   SpecDisk     create_disk and delete_disk of the service, with the     *)
(*                disk image files and disks.json.                         *)
(***************************************************************************)
EXTENDS Integers, Sequences, FiniteSets, TLC

\* ---------------------------------------------------------------- bounds
\* VM names the operator can type or select.  "qemu" is a substring of the
\* image name qemu-system-x86_64, "vm1" is not.
Names == {"vm1", "qemu"}
\* Size of the OS process table (orphans included).
MaxProcs == 3
\* QEMU processes left over from an earlier session.
MaxOrphans == 1

Platforms == {"linux", "darwin", "win32"}

VARIABLES
  platform,           \* sys.platform
  vms,                \* vms.json: VM name -> stored record
  procs,              \* OS process table: sequence of process records
  running_processes,  \* name -> index in procs (the Popen handle)
  running_vms,        \* QEMUManagerUI.running_vms (its keys)
  dialog,             \* the open modal confirmation, or NoDialog
  pc,                 \* phase of the program
  last,               \* what the last step did and what it told the operator
  settings,           \* settings.json and the global ConfigManager instance
  call,               \* arguments and result of the latest pure-function call
  form,               \* the configuration form of the window (its widgets)
  files,              \* paths of the disk image files that exist
  disks               \* disks.json: path -> stored disk record

vars ==
  <<platform, vms, procs, running_processes, running_vms, dialog, pc, last,
    settings, call, form, files, disks>>

NoDialog == [op |-> "none", name |-> "none"]

\* ------------------------------------------------------------ dictionaries
Put(f, k, v) == [x \in (DOMAIN f) \cup {k} |-> IF x = k THEN v ELSE f[x]]
Del(f, k) == [x \in (DOMAIN f) \ {k} |-> f[x]]
EmptyDict == [x \in {} |-> 0]

\* --------------------------------------------------------- the process table
\* Slot p of the table is free or holds a process.  A process that has exited
\* and that no Popen handle refers to leaves the table (Reap).
Pids == 1..MaxProcs

Free ==
  [name |-> "none", state |-> "free", origin |-> "none", launched |-> FALSE,
   termSent |-> FALSE, killSent |-> FALSE]

\* A process started by subprocess.Popen(command, shell=True).  With a shell
\* in between, Popen returns a handle also when the QEMU binary is missing or
\* not executable: launched tells whether QEMU itself came up.
NewProc(n, launched) ==
  [name |-> n, state |-> "alive", origin |-> "spawned", launched |-> launched,
   termSent |-> FALSE, killSent |-> FALSE]

\* A QEMU process of an earlier session, started with -name n.
OrphanProc(n) ==
  [name |-> n, state |-> "alive", origin |-> "orphan", launched |-> TRUE,
   termSent |-> FALSE, killSent |-> FALSE]

Alive(ps, p) == ps[p].state = "alive"

FreePids(ps) == {p \in Pids : ps[p].state = "free"}

\* The slot a new process gets.
NextPid(ps) == CHOOSE p \in FreePids(ps) : \A q \in FreePids(ps) : p <= q

Range(f) == {f[x] : x \in DOMAIN f}

Reap(ps, rp) ==
  [p \in Pids |->
     IF ps[p].state = "exited" /\ p \notin Range(rp) THEN Free ELSE ps[p]]

\* Popen.terminate(): no signal is sent to a process that already exited.
Terminate(ps, p) ==
  IF Alive(ps, p) THEN [ps EXCEPT ![p].termSent = TRUE] ELSE ps

\* The process exits (on its own, or because of a signal).
Exited(ps, p) == [ps EXCEPT ![p].state = "exited"]

\* Popen.kill()
Kill(ps, p) ==
  IF Alive(ps, p) THEN [ps EXCEPT ![p].killSent = TRUE, ![p].state = "exited"]
  ELSE ps

\* Outcomes of spawning: QEMU comes up; the shell comes up but QEMU does not
\* (binary missing, permission denied); building the command or Popen raises.
SpawnOutcomes == {"ok", "missing", "raise"}

\* ------------------------------------------------------------ VM values
\* Python's None where a path is expected.
None == "<None>"

\* The attribute boot_order or vga is missing on the VM object (a VM read
\* from vms.json has neither).
Absent == "<absent>"

\* The texts of the boot-order selector of the window.
DiskFirstText == "Disco duro (para arrancar SO)"
OpticalFirstText == "CD/DVD primero (para instalar)"

\* The disk image the configurations point to.
VmDisk == "/vm/a.qcow2"

\* VMUseCase.create_vm called without vga and boot_order: the VirtualMachine
\* it builds, status STOPPED, with the two attributes attached afterwards.
CreateVm(n, disk, iso, cpus, ram, os) ==
  [name |-> n, disk |-> disk, iso |-> iso, cpus |-> cpus, ram |-> ram,
   os |-> os, status |-> "stopped", vga |-> "qxl", boot_order |-> DiskFirstText]

\* ------------------------------------------------------- JSONVMRepository
\* VirtualMachine: the defaults of cpus and ram.
DefaultCpus == 2
DefaultRam == 1024

\* What save writes in vms.json for a VirtualMachine, under its name: disk,
\* iso, cpus, ram, os and status (auto_detected is always false here).  The
\* attributes vga and boot_order are not written.
StoredVMFrom(vm) ==
  [status |-> vm.status, cpus |-> vm.cpus, ram |-> vm.ram,
   disk |-> vm.disk, iso |-> vm.iso, os |-> vm.os]

\* The record vms.json keeps for a VM created with these resource values, on
\* the disk image VmDisk and without an ISO.
StoredVMOf(cpus, ram) ==
  [status |-> "stopped", cpus |-> cpus, ram |-> ram,
   disk |-> VmDisk, iso |-> "", os |-> "Linux"]

StoredVM == StoredVMOf(DefaultCpus, DefaultRam)

\* JSONVMRepository.save
RepoSaveVM(store, n, vm) == Put(store, n, vm)

\* The case a bug would give RepoDelete: the whole store is emptied.
RepoDelete_All(store, n) == EmptyDict

\* JSONVMRepository.delete
RepoDelete(store, n) == IF n \in DOMAIN store THEN Del(store, n) ELSE store

\* JSONVMRepository.find_by_name for a stored name: the VirtualMachine is
\* rebuilt from the record, so it has neither vga nor boot_order.
FindByName(store, n) ==
  [name |-> n, disk |-> store[n].disk, iso |-> store[n].iso,
   cpus |-> store[n].cpus, ram |-> store[n].ram, os |-> store[n].os,
   status |-> store[n].status, vga |-> Absent, boot_order |-> Absent]

\* The case a bug would give Found: the lookup always answers with a VM.
Found_Always(store, n) == TRUE

\* JSONVMRepository.find_by_name returns None for a name that is not stored.
Found(store, n) == n \in DOMAIN store

\* The case a bug would give UpdateVmRaises: the repository has an update
\* method and update_vm returns normally.
UpdateVmRaises_Never == FALSE

\* VMUseCase.update_vm calls vm_repo.update, which JSONVMRepository does not
\* define: the call raises AttributeError.
UpdateVmRaises == TRUE

\* VMUseCase.update_vm(vm): whether it raised and the store it leaves.  A
\* repository with an update method would write the record.
UpdateVm(store, n, rec) ==
  IF UpdateVmRaises
  THEN [raised |-> TRUE, store |-> store]
  ELSE [raised |-> FALSE, store |-> Put(store, n, rec)]

\* ------------------------------------------------------- the form, the disks
\* The form after new_vm: the widgets cleared or back to their defaults.
DefaultForm ==
  [disk |-> "", iso |-> "", cpus |-> DefaultCpus, ram |-> DefaultRam,
   os |-> "Linux", vga |-> "qxl", boot_order |-> DiskFirstText]

\* The form once the operator has chosen the disk image.
FilledForm == [DefaultForm EXCEPT !.disk = VmDisk]

\* What JSONDiskRepository.save writes in disks.json under the path.
DiskRecord(fmt) == [format |-> fmt]

\* ---------------------------------------------------------- ConfigManager
\* settings.file is the acceleration type written in settings.json ("absent":
\* no such file yet); settings.manager is the acceleration type held by the
\* global ConfigManager instance ("None": get_config() was not called yet).
NoSettings == [file |-> "absent", manager |-> "None"]

\* valid_types of set_acceleration_type
AccelTypes == {"none", "kvm", "whpx", "hax", "tcg"}

\* DEFAULT_CONFIG["acceleration"]["type"]
DefaultAcceleration(pf) == IF pf = "win32" THEN "whpx" ELSE "kvm"

\* get_config(): the first call constructs the ConfigManager, whose
\* load_config reads settings.json or writes one with the defaults.
GetConfig(s, pf) ==
  IF s.manager # "None" THEN s
  ELSE IF s.file = "absent"
  THEN [file |-> DefaultAcceleration(pf), manager |-> DefaultAcceleration(pf)]
  ELSE [file |-> s.file, manager |-> s.file]

\* set_acceleration_type followed by save_config
SetAccelerationTypeOf(s, t) ==
  IF t \notin AccelTypes THEN s ELSE [file |-> t, manager |-> t]

\* The case a bug would give GetAccelerationFlag: the flag is always the
\* one of KVM.
GetAccelerationFlag_Kvm(s) == <<"-enable-kvm">>

\* get_acceleration_flag, as the list of words it adds to the command
GetAccelerationFlag(s) ==
  IF s.manager = "none" THEN <<>>
  ELSE IF s.manager = "kvm" THEN <<"-enable-kvm">>
  ELSE IF s.manager = "whpx" THEN <<"-accel", "whpx">>
  ELSE IF s.manager = "hax" THEN <<"-accel", "hax">>
  ELSE <<>>

\* No pure function was called.
NoCall == [fn |-> "none", args |-> <<>>, result |-> <<>>]

\* ------------------------------------------------------- QEMUExecutorImpl
\* start_vm: no look at running_processes before spawning.  build_command
\* runs first and calls get_config() (see the handlers for settings).
ExecutorStartVm(ps, rp, n, outcome) ==
  IF outcome = "raise"
  THEN [ok |-> FALSE, procs |-> ps, rp |-> rp]
  ELSE [ok |-> TRUE,
        procs |-> [ps EXCEPT ![NextPid(ps)] = NewProc(n, outcome = "ok")],
        rp |-> Put(rp, n, NextPid(ps))]

\* stop_vm: terminate(), wait(timeout=5); TimeoutExpired is caught and
\* answered with False, the entry stays.
ExecutorStopVm(ps, rp, n, responds) ==
  IF n \notin DOMAIN rp
  THEN [ok |-> FALSE, procs |-> ps, rp |-> rp]
  ELSE LET p == rp[n] IN
       IF ~Alive(ps, p) \/ responds
       THEN [ok |-> TRUE,
             procs |-> Reap(Exited(Terminate(ps, p), p), Del(rp, n)),
             rp |-> Del(rp, n)]
       ELSE [ok |-> FALSE, procs |-> Terminate(ps, p), rp |-> rp]

\* ------------------------------------------------------------ Init
\* The -name of a leftover process; it is the name of a VM that may be stored.
OrphanNames == {"vm1"}

Orphans ==
  UNION {[1..k -> {OrphanProc(n) : n \in OrphanNames}] : k \in 0..MaxOrphans}

\* The process table when the program starts.
InitialProcs(orphans) ==
  [p \in Pids |-> IF p \in DOMAIN orphans THEN orphans[p] ELSE Free]

InitCommon ==
  /\ platform \in Platforms
  /\ \E d \in SUBSET Names : vms = [n \in d |-> StoredVM]
  /\ running_processes = EmptyDict
  /\ running_vms = {}
  /\ dialog = NoDialog
  /\ last = [op |-> "init", name |-> "none", msg |-> "none"]
  /\ settings = NoSettings
  /\ call = NoCall
  /\ form = FilledForm
  /\ files = {VmDisk}
  /\ disks = Put(EmptyDict, VmDisk, DiskRecord("qcow2"))

Init ==
  /\ InitCommon
  /\ platform \in {"linux", "win32"}
  /\ \E o \in Orphans : procs = InitialProcs(o)
  /\ pc = "startup"

Said(op, n, msg) == last' = [op |-> op, name |-> n, msg |-> msg]

\* ------------------------------------------------------------ environment
\* A process exits on its own.
ProcExit(p) ==
  /\ Alive(procs, p)
  /\ procs' = Reap(Exited(procs, p), running_processes)
  /\ Said("exit", "none", "none")
  /\ UNCHANGED <<platform, form, files, disks, settings, call, vms, running_processes, running_vms, dialog, pc>>

\* ---------------------------------------------- QEMUManagerUI: startup
QemuAlive == \E p \in Pids : Alive(procs, p)

\* The lines `ps aux | grep qemu-system-x86_64` prints: one per live QEMU
\* process, and the line of the shell that runs the pipeline itself, whose
\* command line holds both the word grep and the pattern.
PsGrepLines ==
  {[qemu |-> TRUE, grep |-> FALSE] : p \in {q \in Pids : Alive(procs, q)}}
    \cup {[qemu |-> TRUE, grep |-> TRUE]}

\* detect_running_vms
DetectRunningVms ==
  IF platform = "win32"
  THEN QemuAlive
  ELSE /\ \E l \in PsGrepLines : l.qemu
       /\ ~ \E l \in PsGrepLines : l.grep

\* The command sync_running_vms_state runs for one VM prints something:
\* tasklist lists image names only, ps lists whole command lines.
ListingShows(n) ==
  IF platform = "win32"
  THEN QemuAlive /\ n = "qemu"
  ELSE \E p \in Pids : Alive(procs, p) /\ (procs[p].name = n \/ n = "qemu")

\* sync_running_vms_state
SyncRunningVmsState(rv) ==
  (rv \cup {n \in DOMAIN vms : ListingShows(n)})
     \ {n \in DOMAIN vms : ~ListingShows(n)}

\* main_window.py imports subprocess only inside detect_running_vms,
\* sync_running_vms_state and shutdown_vm, not at module level.
SubprocessImported == FALSE

\* What taskkill /F and pkill -f do to the process table.
KillAll(ps) ==
  [p \in Pids |-> Kill(ps, p)[p]]

\* kill_all_qemu_processes: subprocess.run is a NameError there, the except
\* clause shows a warning, and neither the kill nor running_vms.clear() runs.
KillAllQemuProcesses(ps, rv) ==
  IF SubprocessImported
  THEN [procs |-> KillAll(ps), rv |-> {}, msg |-> "killed"]
  ELSE [procs |-> ps, rv |-> rv, msg |-> "kill_error"]

\* handle_orphaned_vms, called once by __init__ before the timer exists.
HandleOrphanedVms(reply) ==
  /\ pc = "startup"
  /\ pc' = "run"
  /\ IF DetectRunningVms
     THEN IF reply = "No"
          THEN LET k == KillAllQemuProcesses(procs, running_vms) IN
               /\ procs' = Reap(k.procs, running_processes)
               /\ running_vms' = k.rv
               /\ Said("orphans", "none", k.msg)
          ELSE /\ running_vms' = SyncRunningVmsState(running_vms)
               /\ procs' = procs
               /\ Said("orphans", "none", "adopted")
     ELSE /\ UNCHANGED <<procs, running_vms>>
          /\ Said("orphans", "none", "none")
  /\ UNCHANGED <<platform, form, files, disks, settings, call, vms, running_processes, dialog>>

\* ------------------------------------------- QEMUManagerUI: the handlers
\* A handler runs when the window is up and no modal dialog is open.  The
\* selected list item n is an input: the list shows vms.json as it was at the
\* last refresh.
Idle == pc = "run" /\ dialog = NoDialog

\* The case a bug would give AlreadyRunning: the check is left out.
AlreadyRunning_Never(rv, n) == FALSE

\* start_vm: `if vm_name in self.running_vms`
AlreadyRunning(rv, n) == n \in rv

\* The case a bug would give StopTargetRunning: every VM counts as running.
StopTargetRunning_Always(rv, n) == TRUE

\* stop_vm: `if vm_name in self.running_vms`
StopTargetRunning(rv, n) == n \in rv

\* The case a bug would give RestartRefused: restart goes on to stop_vm.
RestartRefused_Never(rv, n) == FALSE

\* restart_vm: `if vm_name not in self.running_vms`
RestartRefused(rv, n) == n \notin rv

\* start_vm
UIStartVM(n, outcome) ==
  /\ Idle
  /\ IF ~Found(vms, n)
     THEN /\ Said("start", n, "not_found")
          /\ UNCHANGED <<procs, running_processes, running_vms, settings>>
     ELSE IF AlreadyRunning(running_vms, n)
     THEN /\ Said("start", n, "already_running")
          /\ UNCHANGED <<procs, running_processes, running_vms, settings>>
     ELSE LET r == ExecutorStartVm(procs, running_processes, n, outcome) IN
          /\ outcome # "raise" => FreePids(procs) # {}
          /\ procs' = r.procs
          /\ running_processes' = r.rp
          /\ settings' = GetConfig(settings, platform)
          /\ IF r.ok
             THEN running_vms' = running_vms \cup {n} /\ Said("start", n, "started")
             ELSE running_vms' = running_vms /\ Said("start", n, "start_failed")
  /\ UNCHANGED <<platform, form, files, disks, call, vms, dialog, pc>>

\* stop_vm
UIStopVM(n, responds) ==
  /\ Idle
  /\ IF StopTargetRunning(running_vms, n)
     THEN LET r == ExecutorStopVm(procs, running_processes, n, responds) IN
          /\ procs' = r.procs
          /\ running_processes' = r.rp
          /\ IF r.ok
             THEN running_vms' = running_vms \ {n} /\ Said("stop", n, "stopped")
             ELSE running_vms' = running_vms /\ Said("stop", n, "none")
     ELSE /\ Said("stop", n, "not_running")
          /\ UNCHANGED <<procs, running_processes, running_vms>>
  /\ UNCHANGED <<platform, form, files, disks, settings, call, vms, dialog, pc>>

\* restart_vm
UIRestartVM(n, responds, outcome) ==
  /\ Idle
  /\ IF RestartRefused(running_vms, n)
     THEN /\ Said("restart", n, "not_running")
          /\ UNCHANGED <<procs, running_processes, running_vms, settings>>
     ELSE LET s == ExecutorStopVm(procs, running_processes, n, responds) IN
          IF ~s.ok
          THEN /\ procs' = s.procs
               /\ running_processes' = s.rp
               /\ running_vms' = running_vms
               /\ settings' = settings
               /\ Said("restart", n, "stop_failed")
          ELSE IF ~Found(vms, n)
          THEN /\ procs' = s.procs
               /\ running_processes' = s.rp
               /\ running_vms' = running_vms \ {n}
               /\ settings' = settings
               /\ Said("restart", n, "restart_failed")
          ELSE LET r == ExecutorStartVm(s.procs, s.rp, n, outcome) IN
               /\ outcome # "raise" => FreePids(s.procs) # {}
               /\ procs' = r.procs
               /\ running_processes' = r.rp
               /\ settings' = GetConfig(settings, platform)
               /\ IF r.ok
                  THEN /\ running_vms' = running_vms
                       /\ Said("restart", n, "restarted")
                  ELSE /\ running_vms' = running_vms \ {n}
                       /\ Said("restart", n, "restart_failed")
  /\ UNCHANGED <<platform, form, files, disks, call, vms, dialog, pc>>

\* shutdown_vm up to its QMessageBox.question: the question runs a nested
\* event loop, in which the status timer keeps firing.
UIShutdownAsk(n) ==
  /\ Idle
  /\ IF n \notin running_vms
     THEN Said("shutdown", n, "not_running") /\ dialog' = dialog
     ELSE Said("shutdown", n, "asking") /\ dialog' = [op |-> "shutdown", name |-> n]
  /\ UNCHANGED <<platform, form, files, disks, settings, call, vms, procs, running_processes, running_vms, pc>>

\* shutdown_vm from the operator's answer on.  del self.running_vms[vm_name]
\* raises KeyError for a missing key, which the handler reports as an error.
UIShutdownReply(reply, responds) ==
  /\ pc = "run"
  /\ dialog.op = "shutdown"
  /\ dialog' = NoDialog
  /\ LET n == dialog.name
         r == ExecutorStopVm(procs, running_processes, n, responds) IN
     IF reply = "Yes"
     THEN /\ procs' = r.procs
          /\ running_processes' = r.rp
          /\ running_vms' = running_vms \ (IF r.ok THEN {n} ELSE {})
          /\ IF ~r.ok THEN Said("shutdown", n, "shutdown_failed")
             ELSE IF n \in running_vms THEN Said("shutdown", n, "shut_down")
             ELSE Said("shutdown", n, "error")
     ELSE /\ Said("shutdown", n, "declined")
          /\ UNCHANGED <<procs, running_processes, running_vms>>
  /\ UNCHANGED <<platform, form, files, disks, settings, call, vms, pc>>

\* delete_vm
UIDeleteVM(n, reply) ==
  /\ Idle
  /\ IF reply = "Yes"
     THEN vms' = RepoDelete(vms, n) /\ Said("delete", n, "deleted")
     ELSE vms' = vms /\ Said("delete", n, "declined")
  /\ UNCHANGED <<platform, form, files, disks, settings, call, procs, running_processes, running_vms, dialog, pc>>

\* save_config for a non-empty name: create_vm builds the VM from the form
\* and saves it, the handler sets vga and boot_order on the object, then
\* update_vm raises and the handler reports an error.
UISaveConfig(n) ==
  /\ Idle
  /\ LET vm == CreateVm(n, form.disk, form.iso, form.cpus, form.ram, form.os)
         edited == [vm EXCEPT !.vga = form.vga, !.boot_order = form.boot_order]
         u == UpdateVm(RepoSaveVM(vms, n, StoredVMFrom(vm)), n, StoredVMFrom(edited)) IN
     /\ vms' = u.store
     /\ IF u.raised THEN Said("save", n, "save_error") ELSE Said("save", n, "saved")
  /\ UNCHANGED <<platform, form, files, disks, settings, call, procs, running_processes, running_vms, dialog, pc>>

\* The case a bug would give DeadVms: the tick finds nothing to drop.
DeadVms_None(rv, rp) == {}

\* update_vm_status, the slot of the 2-second timer: a name is dropped when
\* running_processes.get(name) is falsy, that is when the executor holds no
\* handle for it (a Popen object is truthy, exited or not).
DeadVms(rv, rp) == {n \in rv : n \notin DOMAIN rp}

\* The case a bug would give UpdateVmStatus: the tick marks every stored VM
\* that left the registry as running again.
UpdateVmStatus_Restarts ==
  /\ pc = "run"
  /\ running_vms' = (running_vms \ DeadVms(running_vms, running_processes))
                       \cup DOMAIN vms
  /\ Said("tick", "none", "none")
  /\ UNCHANGED <<platform, form, files, disks, settings, call, vms, procs, running_processes, dialog, pc>>

UpdateVmStatus ==
  /\ pc = "run"
  /\ running_vms' = running_vms \ DeadVms(running_vms, running_processes)
  /\ Said("tick", "none", "none")
  /\ UNCHANGED <<platform, form, files, disks, settings, call, vms, procs, running_processes, dialog, pc>>

\* closeEvent: stop_vm for every key of running_vms, results ignored.
RECURSIVE StopAll(_, _, _, _)
StopAll(ps, rp, todo, responds) ==
  IF todo = {} THEN [procs |-> ps, rp |-> rp]
  ELSE LET n == CHOOSE x \in todo : TRUE
           r == ExecutorStopVm(ps, rp, n, responds[n]) IN
       StopAll(r.procs, r.rp, todo \ {n}, responds)

CloseEvent(responds) ==
  /\ Idle
  /\ LET r == StopAll(procs, running_processes, running_vms, responds) IN
     procs' = r.procs /\ running_processes' = r.rp
  /\ pc' = "closed"
  /\ Said("close", "none", "none")
  /\ UNCHANGED <<platform, form, files, disks, settings, call, vms, running_vms, dialog>>

Replies == {"Yes", "No"}

Next ==
  \/ \E reply \in Replies : HandleOrphanedVms(reply)
  \/ \E n \in Names, o \in SpawnOutcomes : UIStartVM(n, o)
  \/ \E n \in Names, b \in BOOLEAN : UIStopVM(n, b)
  \/ \E n \in Names, b \in BOOLEAN, o \in SpawnOutcomes : UIRestartVM(n, b, o)
  \/ \E n \in Names : UIShutdownAsk(n)
  \/ \E reply \in Replies, b \in BOOLEAN : UIShutdownReply(reply, b)
  \/ \E n \in Names, reply \in Replies : UIDeleteVM(n, reply)
  \/ \E n \in Names : UISaveConfig(n)
  \/ UpdateVmStatus
  \/ \E b \in [Names -> BOOLEAN] : CloseEvent(b)
  \/ \E p \in Pids : ProcExit(p)

Spec == Init /\ [][Next]_vars

\* ------------------------------------------------ QEMUApplicationService
InitService ==
  /\ InitCommon
  /\ platform = "linux"
  /\ procs = InitialProcs(<<>>)
  /\ pc = "service"

\* create_vm: the arguments go to VMUseCase.create_vm, which builds the
\* VirtualMachine and saves it; nothing is validated on the way.
SvcCreateVM(n, cpus, ram) ==
  /\ pc = "service"
  /\ vms' = RepoSaveVM(vms, n, StoredVMOf(cpus, ram))
  /\ Said("svc_create", n, "vm")
  /\ UNCHANGED <<platform, form, files, disks, settings, call, procs, running_processes, running_vms, dialog, pc>>

\* delete_vm
SvcDeleteVM(n) ==
  /\ pc = "service"
  /\ vms' = RepoDelete(vms, n)
  /\ Said("svc_delete", n, "true")
  /\ UNCHANGED <<platform, form, files, disks, settings, call, procs, running_processes, running_vms, dialog, pc>>

\* start_vm: after the executor has started the VM, the status of the VM
\* object becomes RUNNING and update_vm is to persist it; update_vm raises
\* and the except clause answers False.
SvcStartVM(n, outcome) ==
  /\ pc = "service"
  /\ IF ~Found(vms, n)
     THEN /\ Said("svc_start", n, "false")
          /\ UNCHANGED <<procs, running_processes, settings, vms>>
     ELSE LET r == ExecutorStartVm(procs, running_processes, n, outcome)
              u == UpdateVm(vms, n, [vms[n] EXCEPT !.status = "running"]) IN
          /\ outcome # "raise" => FreePids(procs) # {}
          /\ procs' = r.procs
          /\ running_processes' = r.rp
          /\ settings' = GetConfig(settings, platform)
          /\ vms' = IF r.ok THEN u.store ELSE vms
          /\ IF r.ok /\ ~u.raised
             THEN Said("svc_start", n, "true")
             ELSE Said("svc_start", n, "false")
  /\ UNCHANGED <<platform, form, files, disks, call, running_vms, dialog, pc>>

\* stop_vm: after the executor has stopped the VM, a stored VM gets the
\* status STOPPED and update_vm is to persist it.
SvcStopVM(n, responds) ==
  /\ pc = "service"
  /\ LET r == ExecutorStopVm(procs, running_processes, n, responds)
         updates == r.ok /\ Found(vms, n)
         u == IF updates
              THEN UpdateVm(vms, n, [vms[n] EXCEPT !.status = "stopped"])
              ELSE [raised |-> FALSE, store |-> vms] IN
     /\ procs' = r.procs
     /\ running_processes' = r.rp
     /\ vms' = u.store
     /\ IF r.ok /\ ~u.raised
        THEN Said("svc_stop", n, "true")
        ELSE Said("svc_stop", n, "false")
  /\ UNCHANGED <<platform, form, files, disks, settings, call, running_vms, dialog, pc>>

NextService ==
  \/ \E n \in Names : SvcCreateVM(n, DefaultCpus, DefaultRam)
  \/ \E n \in Names : SvcDeleteVM(n)
  \/ \E n \in Names, o \in SpawnOutcomes : SvcStartVM(n, o)
  \/ \E n \in Names, b \in BOOLEAN : SvcStopVM(n, b)
  \/ \E p \in Pids : ProcExit(p)

SpecService == InitService /\ [][NextService]_vars

\* The status life cycle of one VM through the service.
StatusNames == {"vm1"}

NextStatus ==
  \/ \E n \in StatusNames : SvcCreateVM(n, DefaultCpus, DefaultRam)
  \/ \E n \in StatusNames : SvcDeleteVM(n)
  \/ \E n \in StatusNames, o \in SpawnOutcomes : SvcStartVM(n, o)
  \/ \E n \in StatusNames, b \in BOOLEAN : SvcStopVM(n, b)
  \/ \E p \in Pids : ProcExit(p)

SpecStatus == InitService /\ [][NextStatus]_vars

\* ------------------------------------------------------------- QemuGUI
\* The window of qemu_gui.py keeps the configurations in self.vms and the
\* handles in self.running_processes; its list shows exactly the keys of
\* self.vms, so the selected name is always a configured one.
GuiConfig == [auto_detected |-> FALSE]

InitGui ==
  /\ platform \in Platforms
  /\ \E d \in SUBSET Names : vms = [n \in d |-> GuiConfig]
  /\ procs = InitialProcs(<<>>)
  /\ running_processes = EmptyDict
  /\ running_vms = {}
  /\ dialog = NoDialog
  /\ pc = "gui"
  /\ last = [op |-> "init", name |-> "none", msg |-> "none"]
  /\ settings = NoSettings
  /\ call = NoCall
  /\ form = DefaultForm
  /\ files = {}
  /\ disks = EmptyDict

GuiIdle == pc = "gui" /\ dialog = NoDialog

\* save_config
GuiSaveConfig(n) ==
  /\ GuiIdle
  /\ vms' = Put(vms, n, GuiConfig)
  /\ Said("save", n, "saved")
  /\ UNCHANGED <<platform, form, files, disks, settings, call, procs, running_processes, running_vms, dialog, pc>>

\* start_vm
GuiStartVM(n, outcome) ==
  /\ GuiIdle
  /\ n \in DOMAIN vms
  /\ IF n \in DOMAIN running_processes
     THEN /\ Said("start", n, "already_running")
          /\ UNCHANGED <<procs, running_processes>>
     ELSE IF outcome = "raise"
     THEN /\ Said("start", n, "error")
          /\ UNCHANGED <<procs, running_processes>>
     ELSE /\ FreePids(procs) # {}
          /\ procs' = [procs EXCEPT ![NextPid(procs)] = NewProc(n, outcome = "ok")]
          /\ running_processes' = Put(running_processes, n, NextPid(procs))
          /\ Said("start", n, "started")
  /\ UNCHANGED <<platform, form, files, disks, settings, call, vms, running_vms, dialog, pc>>

\* stop_vm: terminate(), wait(timeout=5), kill() when either raises, then
\* the entry is deleted.
GuiStopVM(n, responds) ==
  /\ GuiIdle
  /\ n \in DOMAIN vms
  /\ IF n \in DOMAIN running_processes
     THEN LET p == running_processes[n]
              t == Terminate(procs, p)
              rp == Del(running_processes, n) IN
          /\ procs' = Reap(IF ~Alive(procs, p) \/ responds
                           THEN Exited(t, p) ELSE Kill(t, p), rp)
          /\ running_processes' = rp
          /\ Said("stop", n, "stopped")
     ELSE /\ Said("stop", n, "not_running")
          /\ UNCHANGED <<procs, running_processes>>
  /\ UNCHANGED <<platform, form, files, disks, settings, call, vms, running_vms, dialog, pc>>

\* restart_vm: TimeoutExpired leaves the try block, nothing after wait() runs.
GuiRestartVM(n, responds, outcome) ==
  /\ GuiIdle
  /\ n \in DOMAIN vms
  /\ IF n \notin DOMAIN running_processes
     THEN /\ Said("restart", n, "not_running")
          /\ UNCHANGED <<procs, running_processes>>
     ELSE LET p == running_processes[n]
              t == Terminate(procs, p)
              rp == Del(running_processes, n)
              stopped == Reap(Exited(t, p), rp) IN
          IF Alive(procs, p) /\ ~responds
          THEN /\ procs' = t
               /\ running_processes' = running_processes
               /\ Said("restart", n, "error")
          ELSE IF outcome = "raise"
          THEN /\ procs' = stopped
               /\ running_processes' = rp
               /\ Said("restart", n, "error")
          ELSE /\ procs' = [stopped EXCEPT ![NextPid(stopped)] = NewProc(n, outcome = "ok")]
               /\ running_processes' = Put(rp, n, NextPid(stopped))
               /\ Said("restart", n, "restarted")
  /\ UNCHANGED <<platform, form, files, disks, settings, call, vms, running_vms, dialog, pc>>

\* shutdown_vm up to its QMessageBox.question
GuiShutdownAsk(n) ==
  /\ GuiIdle
  /\ n \in DOMAIN vms
  /\ IF n \notin DOMAIN running_processes
     THEN Said("shutdown", n, "not_running") /\ dialog' = dialog
     ELSE Said("shutdown", n, "asking") /\ dialog' = [op |-> "shutdown", name |-> n]
  /\ UNCHANGED <<platform, form, files, disks, settings, call, vms, procs, running_processes, running_vms, pc>>

\* shutdown_vm from the answer on: self.running_processes[vm_name] raises
\* KeyError when the timer has removed the entry meanwhile.
GuiShutdownReply(reply, responds) ==
  /\ pc = "gui"
  /\ dialog.op = "shutdown"
  /\ dialog' = NoDialog
  /\ LET n == dialog.name IN
     IF reply = "No"
     THEN /\ Said("shutdown", n, "declined")
          /\ UNCHANGED <<procs, running_processes>>
     ELSE IF n \notin DOMAIN running_processes
     THEN /\ Said("shutdown", n, "error")
          /\ UNCHANGED <<procs, running_processes>>
     ELSE LET p == running_processes[n]
              t == Terminate(procs, p)
              rp == Del(running_processes, n) IN
          IF Alive(procs, p) /\ ~responds
          THEN /\ procs' = t
               /\ running_processes' = running_processes
               /\ Said("shutdown", n, "error")
          ELSE /\ procs' = Reap(Exited(t, p), rp)
               /\ running_processes' = rp
               /\ Said("shutdown", n, "shut_down")
  /\ UNCHANGED <<platform, form, files, disks, settings, call, vms, running_vms, pc>>

\* delete_vm
GuiDeleteVM(n, reply) ==
  /\ GuiIdle
  /\ n \in DOMAIN vms
  /\ IF reply = "Yes"
     THEN vms' = Del(vms, n) /\ Said("delete", n, "deleted")
     ELSE vms' = vms /\ Said("delete", n, "declined")
  /\ UNCHANGED <<platform, form, files, disks, settings, call, procs, running_processes, running_vms, dialog, pc>>

\* update_vm_status: process.poll() is not None
GuiDeadVms(ps, rp) == {n \in DOMAIN rp : ~Alive(ps, rp[n])}

GuiUpdateVmStatus ==
  /\ pc = "gui"
  /\ LET rp == [n \in DOMAIN running_processes \ GuiDeadVms(procs, running_processes)
                  |-> running_processes[n]] IN
     /\ running_processes' = rp
     /\ procs' = Reap(procs, rp)
  /\ Said("tick", "none", "none")
  /\ UNCHANGED <<platform, form, files, disks, settings, call, vms, running_vms, dialog, pc>>

\* closeEvent: terminate() on every handle, no wait
GuiCloseEvent ==
  /\ GuiIdle
  /\ procs' = [p \in Pids |->
                 IF p \in Range(running_processes) THEN Terminate(procs, p)[p]
                 ELSE procs[p]]
  /\ pc' = "closed"
  /\ Said("close", "none", "none")
  /\ UNCHANGED <<platform, form, files, disks, settings, call, vms, running_processes, running_vms, dialog>>

NextGui ==
  \/ \E n \in Names : GuiSaveConfig(n)
  \/ \E n \in Names, o \in SpawnOutcomes : GuiStartVM(n, o)
  \/ \E n \in Names, b \in BOOLEAN : GuiStopVM(n, b)
  \/ \E n \in Names, b \in BOOLEAN, o \in SpawnOutcomes : GuiRestartVM(n, b, o)
  \/ \E n \in Names : GuiShutdownAsk(n)
  \/ \E reply \in Replies, b \in BOOLEAN : GuiShutdownReply(reply, b)
  \/ \E n \in Names, reply \in Replies : GuiDeleteVM(n, reply)
  \/ GuiUpdateVmStatus
  \/ GuiCloseEvent
  \/ \E p \in Pids : ProcExit(p)

SpecGui == InitGui /\ [][NextGui]_vars

\* ------------------------------------------------- QEMUCommandBuilder
\* A command is the list of the words the builder appends, in order; the
\* string it returns is these words joined by single blanks.  Numbers are
\* written in decimal, as an f-string writes them.

\* `if vm.iso:` and `if vm.disk:`: None and the empty string are falsy.
Truthy(path) == path # None /\ path # ""

\* _quote_path
QuotePath(path) == "\"" \o path \o "\""

\* getattr(vm, 'boot_order', 'Disco duro (para arrancar SO)')
BootOrderOf(vm) == IF vm.boot_order = Absent THEN DiskFirstText ELSE vm.boot_order

\* `"Disco duro" in boot_order`, on the texts above
HasDiscoDuro(text) == text = DiskFirstText

\* getattr(vm, 'vga', 'qxl')
VgaOf(vm) == IF vm.vga = Absent THEN "qxl" ELSE vm.vga

\* The case a bug would give MemoryWords: the amount is clamped to the range
\* of the window's spin box.
MemoryWords_Clamped(vm) ==
  <<"-m", ToString(IF vm.ram < 256 THEN 256
                   ELSE IF vm.ram > 16384 THEN 16384 ELSE vm.ram)>>

\* cmd += f" -m {vm.ram}"
MemoryWords(vm) == <<"-m", ToString(vm.ram)>>

\* cmd += f" -smp cores={vm.cpus}"
SmpWords(vm) == <<"-smp", "cores=" \o ToString(vm.cpus)>>

\* The ISO and the disk
MediaWords(vm) ==
  (IF Truthy(vm.iso) THEN <<"-cdrom", QuotePath(vm.iso)>> ELSE <<>>)
    \o (IF Truthy(vm.disk) THEN <<"-hda", QuotePath(vm.disk)>> ELSE <<>>)

\* The case a bug would give BootWords: the two orders are swapped.
BootWords_Swapped(vm) ==
  IF HasDiscoDuro(BootOrderOf(vm))
  THEN <<"-boot", "order=dc,menu=on,splash-time=5000">>
  ELSE <<"-boot", "order=cd,menu=on,splash-time=5000">>

\* build_command: the boot order
BootWords(vm) ==
  IF HasDiscoDuro(BootOrderOf(vm))
  THEN <<"-boot", "order=cd,menu=on,splash-time=5000">>
  ELSE <<"-boot", "order=dc,menu=on,splash-time=5000">>

\* Optional arguments of build_command that were not given.
NoVideo == [given |-> FALSE, gl_acceleration |-> FALSE, virgl |-> FALSE]
NoAudio == [given |-> FALSE, enabled |-> FALSE, driver |-> "", model |-> ""]
NoUSB == [given |-> FALSE, ports |-> 0]

VideoWords(video) ==
  IF ~video.given THEN <<>>
  ELSE (IF video.gl_acceleration THEN <<"-enable-kvm">> ELSE <<>>)
         \o (IF video.virgl THEN <<"-device", "virtio-gpu-gl">> ELSE <<>>)

AudioWords(audio) ==
  IF audio.given /\ audio.enabled
  THEN <<"-audiodev", audio.driver \o ",id=audio0",
         "-device", audio.model \o ",audiodev=audio0">>
  ELSE <<>>

RECURSIVE UsbPortWords(_, _)
UsbPortWords(i, ports) ==
  IF i >= ports THEN <<>>
  ELSE <<"-device", "usb-port,bus=ehci.0,nr=" \o ToString(i + 1)>>
         \o UsbPortWords(i + 1, ports)

USBWords(usb) ==
  IF ~usb.given THEN <<>>
  ELSE <<"-device", "usb-ehci,id=ehci">> \o UsbPortWords(0, usb.ports)

\* QEMUCommandBuilder.build_command, given the settings get_config() returns
BuildCommand(vm, video, audio, usb, s) ==
  <<"qemu-system-x86_64", "-name", vm.name>>
    \o MemoryWords(vm)
    \o SmpWords(vm)
    \o MediaWords(vm)
    \o BootWords(vm)
    \o <<"-usb", "-device", "usb-kbd", "-device", "usb-mouse">>
    \o <<"-vga", VgaOf(vm)>>
    \o <<"-display", "gtk,grab-on-hover=on">>
    \o VideoWords(video)
    \o AudioWords(audio)
    \o <<"-net", "nic,model=virtio", "-net", "user">>
    \o USBWords(usb)
    \o GetAccelerationFlag(s)
    \o <<"&">>

\* QemuGUI.build_qemu_command: the display and accelerator of the platform
GuiPlatformWords(pf) ==
  IF pf = "win32" THEN <<"-accel", "whpx", "-display", "sdl">>
  ELSE IF pf = "darwin" THEN <<"-accel", "hvf", "-display", "cocoa">>
  ELSE <<"-enable-kvm", "-display", "gtk,gl=on">>

\* QemuGUI.build_qemu_command: the boot order
GuiBootWords(vm) ==
  IF HasDiscoDuro(BootOrderOf(vm))
  THEN <<"-boot", "order=c,d,menu=on">>
  ELSE <<"-boot", "order=d,c,menu=on">>

\* QemuGUI.build_qemu_command
BuildQemuCommand(vm, pf) ==
  <<"qemu-system-x86_64", "-name", vm.name>>
    \o <<"-m", ToString(vm.ram)>>
    \o <<"-smp", "cores=" \o ToString(vm.cpus)>>
    \o MediaWords(vm)
    \o GuiBootWords(vm)
    \o <<"-usb", "-device", "usb-kbd", "-device", "usb-mouse">>
    \o <<"-vga", VgaOf(vm)>>
    \o GuiPlatformWords(pf)
    \o <<"-net", "nic,model=virtio", "-net", "user">>
    \o <<"-audiodev", "sdl,id=audio0", "-device", "intel-hda",
         "-device", "hda-duplex,audiodev=audio0">>

\* The VM objects the builders are applied to: resource values inside and
\* outside the validated ranges, each medium present or not.
BuilderRams == {128, 1024, 200000}
BuilderCpus == {2, 64}
BuilderVMs ==
  [name : {"vm1"},
   ram : BuilderRams,
   cpus : BuilderCpus,
   iso : {None, "", "/iso/a.iso"},
   disk : {"", "/vm/a.qcow2"},
   boot_order : {Absent, DiskFirstText, OpticalFirstText},
   vga : {Absent, "virtio"}]
BuilderVideos == {NoVideo, [given |-> TRUE, gl_acceleration |-> TRUE, virgl |-> TRUE]}
BuilderAudios ==
  {NoAudio, [given |-> TRUE, enabled |-> TRUE, driver |-> "alsa", model |-> "ac97"]}
BuilderUSBs == {NoUSB, [given |-> TRUE, ports |-> 2]}

InitBuilder ==
  /\ platform \in Platforms
  /\ vms = EmptyDict
  /\ procs = InitialProcs(<<>>)
  /\ running_processes = EmptyDict
  /\ running_vms = {}
  /\ dialog = NoDialog
  /\ pc = "builder"
  /\ last = [op |-> "init", name |-> "none", msg |-> "none"]
  /\ form = DefaultForm
  /\ files = {}
  /\ disks = EmptyDict
  /\ settings = NoSettings
  /\ \E vm \in BuilderVMs, video \in BuilderVideos, audio \in BuilderAudios,
        usb \in BuilderUSBs :
       call = [fn |-> "none", args |-> <<vm, video, audio, usb>>, result |-> <<>>]

\* A call of QEMUCommandBuilder.build_command with the arguments of call.
BuildCommandCall ==
  /\ pc = "builder"
  /\ settings' = GetConfig(settings, platform)
  /\ call' = [fn |-> "build_command", args |-> call.args,
              result |-> BuildCommand(call.args[1], call.args[2], call.args[3],
                                      call.args[4], settings')]
  /\ Said("build", call.args[1].name, "none")
  /\ UNCHANGED <<platform, form, files, disks, vms, procs, running_processes, running_vms, dialog, pc>>

\* A call of QemuGUI.build_qemu_command with the VM of call.
BuildQemuCommandCall ==
  /\ pc = "builder"
  /\ call' = [fn |-> "build_qemu_command", args |-> call.args,
              result |-> BuildQemuCommand(call.args[1], platform)]
  /\ Said("gui_build", call.args[1].name, "none")
  /\ UNCHANGED <<platform, form, files, disks, settings, vms, procs, running_processes, running_vms, dialog, pc>>

\* The acceleration types the settings dialog offers, and one it does not.
AccelInputs == AccelTypes \cup {"hvf"}

\* SettingsDialog: __init__ calls get_config(), save_settings calls
\* set_acceleration_type with the selected type.
SaveSettings(t) ==
  /\ pc = "builder"
  /\ settings' = SetAccelerationTypeOf(GetConfig(settings, platform), t)
  /\ Said("settings", "none", t)
  /\ UNCHANGED <<platform, form, files, disks, call, vms, procs, running_processes, running_vms, dialog, pc>>

NextBuilder ==
  \/ BuildCommandCall
  \/ BuildQemuCommandCall
  \/ \E t \in AccelInputs : SaveSettings(t)

SpecBuilder == InitBuilder /\ [][NextBuilder]_vars

\* ------------------------------------------------------- name validation
\* A name is the sequence of its characters.
MAX_VM_NAME_LENGTH == 64

\* config.VALID_NAME_CHARS
VALID_NAME_CHARS ==
  <<"a", "b", "c", "d", "e", "f", "g", "h", "i", "j", "k", "l", "m",
    "n", "o", "p", "q", "r", "s", "t", "u", "v", "w", "x", "y", "z",
    "A", "B", "C", "D", "E", "F", "G", "H", "I", "J", "K", "L", "M",
    "N", "O", "P", "Q", "R", "S", "T", "U", "V", "W", "X", "Y", "Z",
    "0", "1", "2", "3", "4", "5", "6", "7", "8", "9", "-", "_">>

\* `c in VALID_NAME_CHARS`
InValidNameChars(c) == \E i \in DOMAIN VALID_NAME_CHARS : VALID_NAME_CHARS[i] = c

\* The case a bug would give IsValidVmName: the length is not looked at.
IsValidVmName_NoLengthLimit(name) ==
  IF name = <<>> THEN FALSE
  ELSE \A i \in DOMAIN name : InValidNameChars(name[i])

\* config.is_valid_vm_name
IsValidVmName(name) ==
  IF name = <<>> \/ Len(name) > MAX_VM_NAME_LENGTH THEN FALSE
  ELSE \A i \in DOMAIN name : InValidNameChars(name[i])

\* utils.validate_vm_name: (valid, message)
ValidateVmName(name) ==
  IF name = <<>> THEN [valid |-> FALSE, msg |-> "empty"]
  ELSE IF Len(name) > MAX_VM_NAME_LENGTH THEN [valid |-> FALSE, msg |-> "too_long"]
  ELSE IF ~IsValidVmName(name) THEN [valid |-> FALSE, msg |-> "invalid_chars"]
  ELSE [valid |-> TRUE, msg |-> ""]

\* The names the validators are applied to: every name of at most MaxShort
\* characters over NameAlphabet, and names of 63 to 65 characters.
MaxShort == 2
NameAlphabet == {"a", "Z", "0", "-", "_", ";", " ", ".", "~"}
Repeat(c, k) == [i \in 1..k |-> c]
ShortNames == UNION {[1..k -> NameAlphabet] : k \in 0..MaxShort}
LongNames ==
  {Repeat("a", k) : k \in 63..65}
    \cup {Repeat("a", 63) \o <<c>> : c \in {"_", ";"}}
    \cup {Repeat("a", 64) \o <<";">>}
ValidatorNames == ShortNames \cup LongNames

InitValidate ==
  /\ platform = "linux"
  /\ vms = EmptyDict
  /\ procs = InitialProcs(<<>>)
  /\ running_processes = EmptyDict
  /\ running_vms = {}
  /\ dialog = NoDialog
  /\ pc = "validate"
  /\ last = [op |-> "init", name |-> "none", msg |-> "none"]
  /\ form = DefaultForm
  /\ files = {}
  /\ disks = EmptyDict
  /\ settings = NoSettings
  /\ \E name \in ValidatorNames :
       call = [fn |-> "none", args |-> <<name>>, result |-> <<>>]

\* A call of utils.validate_vm_name with the name of call.
ValidateVmNameCall ==
  /\ pc = "validate"
  /\ call' = [fn |-> "validate_vm_name", args |-> call.args,
              result |-> ValidateVmName(call.args[1])]
  /\ Said("validate", "none", "none")
  /\ UNCHANGED <<platform, form, files, disks, settings, vms, procs, running_processes, running_vms, dialog, pc>>

\* A call of config.is_valid_vm_name with the name of call.
IsValidVmNameCall ==
  /\ pc = "validate"
  /\ call' = [fn |-> "is_valid_vm_name", args |-> call.args,
              result |-> [valid |-> IsValidVmName(call.args[1]), msg |-> ""]]
  /\ Said("is_valid", "none", "none")
  /\ UNCHANGED <<platform, form, files, disks, settings, vms, procs, running_processes, running_vms, dialog, pc>>

NextValidate ==
  \/ ValidateVmNameCall
  \/ IsValidVmNameCall

SpecValidate == InitValidate /\ [][NextValidate]_vars

\* ------------------------------------- the service with arbitrary arguments
\* The characters of the names used as VM names.
NameChars(n) ==
  CASE n = "vm1" -> <<"v", "m", "1">>
    [] n = "qemu" -> <<"q", "e", "m", "u">>
    [] n = "vm; rm -rf /" ->
         <<"v", "m", ";", " ", "r", "m", " ", "-", "r", "f", " ", "/">>

\* Arguments a caller passes to create_vm.
CreateNames == {"vm1", "vm; rm -rf /"}
CreateCpus == {0, 2, 17}
CreateRams == {255, 1024, 131073}

InitCreate ==
  /\ platform = "linux"
  /\ vms = EmptyDict
  /\ procs = InitialProcs(<<>>)
  /\ running_processes = EmptyDict
  /\ running_vms = {}
  /\ dialog = NoDialog
  /\ pc = "service"
  /\ last = [op |-> "init", name |-> "none", msg |-> "none"]
  /\ settings = NoSettings
  /\ call = NoCall
  /\ form = FilledForm
  /\ files = {VmDisk}
  /\ disks = EmptyDict

NextCreate ==
  \/ \E n \in CreateNames, c \in CreateCpus, r \in CreateRams : SvcCreateVM(n, c, r)
  \/ \E n \in CreateNames : SvcDeleteVM(n)
  \/ \E n \in CreateNames, o \in SpawnOutcomes : SvcStartVM(n, o)

SpecCreate == InitCreate /\ [][NextCreate]_vars

\* ------------------------------------------------- the configuration form
\* The operator edits the form, saves it, selects a stored VM (which loads
\* it into the form) or clears the form.

\* Values the widgets can hold.
FormIsos == {"", "/iso/a.iso"}
FormRams == {1024, 2048}
FormVgas == {"qxl", "virtio"}
FormBootOrders == {DiskFirstText, OpticalFirstText}

Forms ==
  [disk : {"", VmDisk}, iso : FormIsos, cpus : {DefaultCpus}, ram : FormRams,
   os : {"Linux"}, vga : FormVgas, boot_order : FormBootOrders]

InitForm ==
  /\ platform = "linux"
  /\ vms = EmptyDict
  /\ procs = InitialProcs(<<>>)
  /\ running_processes = EmptyDict
  /\ running_vms = {}
  /\ dialog = NoDialog
  /\ pc = "run"
  /\ last = [op |-> "init", name |-> "none", msg |-> "none"]
  /\ settings = NoSettings
  /\ call = NoCall
  /\ form = DefaultForm
  /\ files = {VmDisk}
  /\ disks = EmptyDict

\* The operator changes widgets of the form.
UIEditForm(f) ==
  /\ Idle
  /\ f # form
  /\ form' = f
  /\ Said("edit", "none", "none")
  /\ UNCHANGED <<platform, files, disks, settings, call, vms, procs, running_processes, running_vms, dialog, pc>>

\* on_vm_selected: the list shows stored VMs; the VM is read back from the
\* repository and loaded into the widgets (`vm.iso or ""`, getattr defaults
\* for vga and boot_order).
UISelectVM(n) ==
  /\ Idle
  /\ n \in DOMAIN vms
  /\ LET vm == FindByName(vms, n) IN
     form' = [disk |-> vm.disk,
              iso |-> IF Truthy(vm.iso) THEN vm.iso ELSE "",
              cpus |-> vm.cpus, ram |-> vm.ram, os |-> vm.os,
              vga |-> VgaOf(vm), boot_order |-> BootOrderOf(vm)]
  /\ Said("select", n, "loaded")
  /\ UNCHANGED <<platform, files, disks, settings, call, vms, procs, running_processes, running_vms, dialog, pc>>

\* new_vm
UINewVM ==
  /\ Idle
  /\ form' = DefaultForm
  /\ Said("new", "none", "none")
  /\ UNCHANGED <<platform, files, disks, settings, call, vms, procs, running_processes, running_vms, dialog, pc>>

NextForm ==
  \/ \E f \in Forms : UIEditForm(f)
  \/ \E n \in Names : UISaveConfig(n)
  \/ \E n \in Names : UISelectVM(n)
  \/ UINewVM

SpecForm == InitForm /\ [][NextForm]_vars

\* ------------------------------------------------------- disk operations
\* create_disk and delete_disk of the service, on top of StorageAdapterImpl
\* and JSONDiskRepository; the disk manager dialog of the window calls the
\* storage adapter alone.

\* Paths and format strings a caller passes.
DiskPaths == {"/vm/a.qcow2", "/vm/b.img"}
FormatInputs == {"qcow2", "raw", "vhdx", "bogus"}

\* DiskFormat of qemu_domain/models.py, the one the service imports.
ModelsDiskFormat == {"qcow2", "raw", "vdi", "vmdk"}

\* DISK_FORMATS of config.py; qemu-img creates an image in each of them.
QemuImgFormats == {"qcow2", "raw", "vdi", "vmdk", "vhdx", "qed"}

\* How `qemu-img create` ends for a format it knows: return code 0 with the
\* file written; a non-zero return code without a file; TimeoutExpired
\* with the file already on disk.
QemuImgRuns == {"ok", "fail", "timeout"}

\* StorageAdapterImpl.create_disk
StorageCreateDisk(fs, path, fmt, run) ==
  IF path \in fs THEN [ok |-> FALSE, files |-> fs]
  ELSE IF fmt \notin QemuImgFormats \/ run = "fail" THEN [ok |-> FALSE, files |-> fs]
  ELSE IF run = "ok" THEN [ok |-> TRUE, files |-> fs \cup {path}]
  ELSE [ok |-> FALSE, files |-> fs \cup {path}]

\* StorageAdapterImpl.delete_disk; unlink may raise (permission), which is
\* caught and answered with False.
StorageDeleteDisk(fs, path, unlinks) ==
  IF path \in fs /\ unlinks
  THEN [ok |-> TRUE, files |-> fs \ {path}]
  ELSE [ok |-> FALSE, files |-> fs]

\* JSONDiskRepository.save; open(disks.json, 'w') raises when the file
\* cannot be written, before anything is changed.
DiskRepoSave(store, path, fmt, writable) ==
  IF writable
  THEN [raised |-> FALSE, store |-> Put(store, path, DiskRecord(fmt))]
  ELSE [raised |-> TRUE, store |-> store]

\* JSONDiskRepository.delete: writes only when the path is stored.
DiskRepoDelete(store, path, writable) ==
  IF path \notin DOMAIN store THEN [raised |-> FALSE, store |-> store]
  ELSE IF writable THEN [raised |-> FALSE, store |-> Del(store, path)]
  ELSE [raised |-> TRUE, store |-> store]

InitDisk ==
  /\ platform = "linux"
  /\ vms = EmptyDict
  /\ procs = InitialProcs(<<>>)
  /\ running_processes = EmptyDict
  /\ running_vms = {}
  /\ dialog = NoDialog
  /\ pc = "disks"
  /\ last = [op |-> "init", name |-> "none", msg |-> "none"]
  /\ settings = NoSettings
  /\ call = NoCall
  /\ form = DefaultForm
  /\ files = {}
  /\ disks = EmptyDict

\* QEMUApplicationService.create_disk: the file is created first, then
\* DiskFormat(format_type) and the repository save may raise; every
\* exception is answered with False.
SvcCreateDisk(path, fmt, run, writable) ==
  /\ pc = "disks"
  /\ LET st == StorageCreateDisk(files, path, fmt, run)
         sv == DiskRepoSave(disks, path, fmt, writable) IN
     /\ files' = st.files
     /\ IF st.ok /\ fmt \in ModelsDiskFormat /\ ~sv.raised
        THEN disks' = sv.store /\ Said("svc_create_disk", path, "true")
        ELSE disks' = disks /\ Said("svc_create_disk", path, "false")
  /\ UNCHANGED <<platform, form, settings, call, vms, procs, running_processes, running_vms, dialog, pc>>

\* QEMUApplicationService.delete_disk: the file is removed first, then the
\* record; every exception is answered with False.
SvcDeleteDisk(path, unlinks, writable) ==
  /\ pc = "disks"
  /\ LET st == StorageDeleteDisk(files, path, unlinks)
         dl == DiskRepoDelete(disks, path, writable) IN
     /\ files' = st.files
     /\ IF st.ok /\ ~dl.raised
        THEN disks' = dl.store /\ Said("svc_delete_disk", path, "true")
        ELSE disks' = disks /\ Said("svc_delete_disk", path, "false")
  /\ UNCHANGED <<platform, form, settings, call, vms, procs, running_processes, running_vms, dialog, pc>>

\* DiskManagerDialog.delete_disk after its confirmation: the storage adapter
\* alone, disks.json is not touched.
DialogDeleteDisk(path, unlinks) ==
  /\ pc = "disks"
  /\ LET st == StorageDeleteDisk(files, path, unlinks) IN
     /\ files' = st.files
     /\ IF st.ok
        THEN Said("dialog_delete_disk", path, "deleted")
        ELSE Said("dialog_delete_disk", path, "error")
  /\ UNCHANGED <<platform, form, disks, settings, call, vms, procs, running_processes, running_vms, dialog, pc>>

NextDisk ==
  \/ \E path \in DiskPaths, fmt \in FormatInputs, run \in QemuImgRuns, w \in BOOLEAN :
       SvcCreateDisk(path, fmt, run, w)
  \/ \E path \in DiskPaths, u \in BOOLEAN, w \in BOOLEAN : SvcDeleteDisk(path, u, w)
  \/ \E path \in DiskPaths, u \in BOOLEAN : DialogDeleteDisk(path, u)

SpecDisk == InitDisk /\ [][NextDisk]_vars

\* ====================================================================
\* Claims
\* ====================================================================
Registry == <<procs, running_processes, running_vms>>

SpawnedAlive(p) == procs[p].origin = "spawned" /\ Alive(procs, p)

\* C1: through the window, a start of a name that is in running_vms is
\* rejected and spawns nothing; a start that directly follows a successful
\* start of the same name says "already running"; a start that directly
\* follows a successful stop of the same name is not rejected as running; and
\* no two live processes spawned by the program carry the same name.
C1_AtMostOneProcessPerName ==
  /\ [](\A p, q \in Pids :
          SpawnedAlive(p) /\ SpawnedAlive(q) /\ procs[p].name = procs[q].name
            => p = q)
  /\ [][last'.op = "start" =>
          /\ last'.name \in running_vms =>
               /\ last'.msg \in {"already_running", "not_found"}
               /\ Registry' = Registry
          /\ last = [op |-> "start", name |-> last'.name, msg |-> "started"] =>
               last'.msg = "already_running"
          /\ (last = [op |-> "stop", name |-> last'.name, msg |-> "stopped"]
                /\ last'.name \in DOMAIN vms) =>
               last'.msg \in {"started", "start_failed"}]_vars

\* A start was rejected for a VM whose process is tracked and alive.
C1_Witness ==
  /\ last.op = "start" /\ last.msg = "already_running"
  /\ last.name \in DOMAIN running_processes
  /\ Alive(procs, running_processes[last.name])

\* C2: a start through the service for a name that already has a handle in
\* running_processes fails, spawns nothing and leaves the handle in place.
C2_RegisterRejectsDuplicate ==
  [][(last'.op = "svc_start" /\ last'.name \in DOMAIN running_processes) =>
       /\ last'.msg = "false"
       /\ procs' = procs
       /\ running_processes' = running_processes]_vars

\* C3: after a stop of a name that is registered (in running_vms, with a
\* handle in running_processes) the name is in neither of the two.
C3_StopUnregisters ==
  [][(last'.op = "stop" /\ last'.name \in running_vms
        /\ last'.name \in DOMAIN running_processes) =>
       /\ last'.name \notin running_vms'
       /\ last'.name \notin DOMAIN running_processes']_vars

\* C4: when a stop, restart or shutdown has run, no process that was sent
\* terminate() is still alive: after the wait timed out it was killed.
C4_ForcedKillAfterTimeout ==
  last.op \in {"stop", "restart", "shutdown"} =>
     \A p \in Pids : procs[p].termSent => ~Alive(procs, p)

\* C5: a stop of a name that is not in running_vms says "not running" and
\* changes neither the process table nor the two registries; that is what a
\* stop directly after a successful stop of the same name does.
C5_StopOfStoppedIsNoOp ==
  [][last'.op = "stop" =>
       /\ last'.name \notin running_vms =>
            last'.msg = "not_running" /\ Registry' = Registry
       /\ last = [op |-> "stop", name |-> last'.name, msg |-> "stopped"] =>
            last'.msg = "not_running" /\ Registry' = Registry]_vars

\* A second stop directly after a successful one.
C5_Witness ==
  /\ last.op = "stop" /\ last.msg = "not_running"
  /\ last.name \notin running_vms
  /\ last.name \in DOMAIN vms

\* C6: a start of a name that is not in the metadata store says "not found",
\* spawns nothing and changes neither registry.
C6_StartOfUnknownNotFound ==
  [][(last'.op = "start" /\ last'.name \notin DOMAIN vms) =>
       last'.msg = "not_found" /\ Registry' = Registry]_vars

\* A start of a name that is not stored was answered.
C6_Witness ==
  last.op = "start" /\ last.msg = "not_found" /\ last.name \notin DOMAIN vms

\* C7: every name in running_processes has a process in which QEMU was
\* launched.
C7_NoRegistrationWithoutLaunch ==
  \A n \in DOMAIN running_processes : procs[running_processes[n]].launched

\* C8 as stated: a restart of a stored VM that is not in the registry leaves
\* it registered as running.
C8_RestartDegradesToStart ==
  [][(last'.op = "restart" /\ last'.name \notin running_vms
        /\ last'.name \in DOMAIN vms) =>
       last'.name \in running_vms']_vars

\* C8 as amended: a restart of a VM that is not in the registry is refused
\* with "not running"; nothing is spawned and the registries stay as they are.
C8_RestartOfStoppedRefused ==
  [][(last'.op = "restart" /\ last'.name \notin running_vms) =>
       last'.msg = "not_running" /\ Registry' = Registry]_vars

\* A restart of a stored VM that was not running was answered.
C8_Witness ==
  /\ last.op = "restart" /\ last.msg = "not_running"
  /\ last.name \in DOMAIN vms /\ last.name \notin running_vms

\* C9: right after a tick no VM is in running_vms whose tracked process has
\* exited.
C9_TickRemovesDead ==
  last.op = "tick" =>
     \A n \in running_vms :
        n \in DOMAIN running_processes => Alive(procs, running_processes[n])

\* The process a VM of the registry stands for is alive: the one behind its
\* handle, or for an adopted VM the one the listing matched.
VmProcessAlive(n) ==
  IF n \in DOMAIN running_processes
  THEN Alive(procs, running_processes[n])
  ELSE ListingShows(n)

\* C10: a tick removes a name from running_vms only if that VM's process
\* has exited.
C10_TickPrunesOnlyDead ==
  [][last'.op = "tick" =>
       \A n \in running_vms \ running_vms' : ~VmProcessAlive(n)]_vars

\* C11: a tick spawns no process and adds no name to running_vms or to
\* running_processes; once the window is up, a process appears in the table
\* and a name enters either registry only in a start or a restart the
\* operator asked for, and the name is the one of that request.
C11_NoAutonomousRestart ==
  [][/\ last'.op = "tick" =>
          /\ procs' = procs
          /\ running_processes' = running_processes
          /\ running_vms' \subseteq running_vms
     /\ pc = "run" =>
          /\ (\E p \in Pids : ~Alive(procs, p) /\ Alive(procs', p)) =>
                last'.op \in {"start", "restart"}
          /\ \A n \in (running_vms' \ running_vms)
                      \cup (DOMAIN running_processes' \ DOMAIN running_processes) :
                last'.op \in {"start", "restart"} /\ last'.name = n]_vars

\* A tick has run while a stored VM is out of both registries.
C11_Witness ==
  /\ last.op = "tick"
  /\ \E n \in DOMAIN vms : n \notin running_vms /\ n \notin DOMAIN running_processes

\* C12: at startup the operator is prompted about leftover VMs exactly when
\* a QEMU process exists in the process table.
C12_OrphanDetectedAtStartup ==
  [][last'.op = "orphans" =>
       ((last'.msg # "none") <=> \E p \in Pids : Alive(procs, p))]_vars

\* The command line of live process p holds the VM name n: as the value of
\* -name, or as a part of the program name qemu-system-x86_64.
CmdLineMatches(p, n) ==
  Alive(procs, p) /\ (procs[p].name = n \/ n = "qemu")

\* C13: when the operator chose to adopt, every stored VM that a live
\* process was started for (-name) is in running_vms afterwards, and every
\* stored VM in running_vms has a live process whose command line holds its
\* name.
C13_AdoptionMarksMatchingVms ==
  [][(last'.op = "orphans" /\ last'.msg = "adopted") =>
       \A n \in DOMAIN vms :
          /\ (\E p \in Pids : Alive(procs, p) /\ procs[p].name = n)
                => n \in running_vms'
          /\ n \in running_vms' => \E p \in Pids : CmdLineMatches(p, n)]_vars

\* Words of a command
Has(c, w) == \E i \in DOMAIN c : c[i] = w
HasPair(c, w, a) == \E i \in 1..(Len(c) - 1) : c[i] = w /\ c[i + 1] = a
Count(c, w) == Cardinality({i \in DOMAIN c : c[i] = w})
Built == call.fn \in {"build_command", "build_qemu_command"}

\* C14: a command built by either builder has exactly one -m, followed by
\* the VM's ram as it is, and exactly one -smp, followed by cores= and the
\* VM's cpus as they are; it has -cdrom (followed by the quoted ISO path)
\* exactly when the ISO path is neither None nor empty, and -hda (followed
\* by the quoted disk path) exactly when the disk path is not empty.
C14_CommandCarriesResourcesAndMedia ==
  Built =>
    LET vm == call.args[1]
        c == call.result IN
    /\ Count(c, "-m") = 1 /\ HasPair(c, "-m", ToString(vm.ram))
    /\ Count(c, "-smp") = 1 /\ HasPair(c, "-smp", "cores=" \o ToString(vm.cpus))
    /\ Has(c, "-cdrom") <=> (vm.iso # None /\ vm.iso # "")
    /\ Has(c, "-cdrom") => HasPair(c, "-cdrom", "\"" \o vm.iso \o "\"")
    /\ Has(c, "-hda") <=> vm.disk # ""
    /\ Has(c, "-hda") => HasPair(c, "-hda", "\"" \o vm.disk \o "\"")

\* build_command was applied to a VM with ram and cpus above the validated
\* ranges, an empty ISO path and a disk.
C14_Witness ==
  /\ call.fn = "build_command"
  /\ call.args[1].ram = 200000 /\ call.args[1].cpus = 64
  /\ call.args[1].iso = "" /\ call.args[1].disk = "/vm/a.qcow2"
  /\ HasPair(call.result, "-m", "200000")
  /\ ~Has(call.result, "-cdrom") /\ Has(call.result, "-hda")

\* The word that follows -boot is order=<v>, alone or followed by further
\* boot options.
BootSuffixes == {"", ",menu=on", ",menu=on,splash-time=5000"}
OrderValueIs(c, v) ==
  \E i \in 1..(Len(c) - 1) :
     c[i] = "-boot" /\ c[i + 1] \in {"order=" \o v \o x : x \in BootSuffixes}

\* The VM asks for the disk first: by the selector's text, or by having no
\* boot order at all.
DiskFirst(vm) == vm.boot_order \in {Absent, DiskFirstText}

HasAccelOf(c, pf) ==
  IF pf = "linux" THEN Has(c, "-enable-kvm") \/ HasPair(c, "-accel", "kvm")
  ELSE IF pf = "darwin" THEN HasPair(c, "-accel", "hvf")
  ELSE HasPair(c, "-accel", "whpx")

HasDisplayOf(c, pf) ==
  IF pf = "linux"
  THEN \E w \in {"gtk", "gtk,gl=on", "gtk,grab-on-hover=on"} : HasPair(c, "-display", w)
  ELSE IF pf = "darwin" THEN HasPair(c, "-display", "cocoa")
  ELSE HasPair(c, "-display", "sdl")

\* C16: a built command asks for the accelerator and the display of the
\* host platform (KVM and GTK on linux, HVF and Cocoa on darwin, WHPX and
\* SDL on win32) and for those of no other platform.
C16_PlatformFlags ==
  Built =>
    /\ HasAccelOf(call.result, platform)
    /\ HasDisplayOf(call.result, platform)
    /\ \A pf \in Platforms \ {platform} :
         ~HasAccelOf(call.result, pf) /\ ~HasDisplayOf(call.result, pf)

\* C17: a call of build_command returns the command the previous call with
\* the same VM, video, audio and USB arguments on the same host returned,
\* and leaves the settings, the VM store, the registries and the process
\* table as they were.
C17_BuildCommandDeterministic ==
  [][last'.op = "build" =>
       /\ (call.fn = "build_command" /\ call'.args = call.args
             /\ platform' = platform) =>
            call'.result = call.result
       /\ settings' = settings
       /\ vms' = vms
       /\ Registry' = Registry]_vars

\* The safe character set: ASCII letters, digits, hyphen, underscore.
AsciiLetters ==
  {"a", "b", "c", "d", "e", "f", "g", "h", "i", "j", "k", "l", "m",
   "n", "o", "p", "q", "r", "s", "t", "u", "v", "w", "x", "y", "z",
   "A", "B", "C", "D", "E", "F", "G", "H", "I", "J", "K", "L", "M",
   "N", "O", "P", "Q", "R", "S", "T", "U", "V", "W", "X", "Y", "Z"}
AsciiDigits == {"0", "1", "2", "3", "4", "5", "6", "7", "8", "9"}
SafeChars == AsciiLetters \cup AsciiDigits \cup {"-", "_"}

\* The name is not empty, has at most 64 characters, all of them safe.
NameOk(name) ==
  /\ Len(name) >= 1
  /\ Len(name) <= 64
  /\ \A i \in DOMAIN name : name[i] \in SafeChars

\* C18: every name in the VM store is a safe name, and every start that
\* reaches the executor (and with it the command builder) is for a safe name.
C18_NoUnsafeNameStoredOrBuilt ==
  /\ [](\A n \in DOMAIN vms : NameOk(NameChars(n)))
  /\ [][(last'.op = "svc_start" /\ last'.name \in DOMAIN vms) =>
          NameOk(NameChars(last'.name))]_vars

\* C19: validate_vm_name answers valid exactly for the names that are not
\* empty, have at most 64 characters and only safe characters; so does
\* is_valid_vm_name, and two calls of the two functions on the same name
\* agree.
C19_ValidateVmName ==
  /\ [](call.fn \in {"validate_vm_name", "is_valid_vm_name"} =>
          (call.result.valid <=> NameOk(call.args[1])))
  /\ [][(call.fn \in {"validate_vm_name", "is_valid_vm_name"}
           /\ call'.fn \in {"validate_vm_name", "is_valid_vm_name"}
           /\ call'.args = call.args) =>
          call'.result.valid = call.result.valid]_vars

\* validate_vm_name has rejected a name of 65 safe characters.
C19_Witness ==
  /\ call.fn = "validate_vm_name"
  /\ Len(call.args[1]) = 65
  /\ \A i \in DOMAIN call.args[1] : call.args[1][i] \in SafeChars
  /\ ~call.result.valid

\* C20: every VM in the store has cpus within 1..16 and ram within
\* 256..131072, and so has every VM that a start hands to the executor (and
\* with it to the command builder).
C20_ResourcesWithinBounds ==
  /\ [](\A n \in DOMAIN vms :
          /\ vms[n].cpus >= 1 /\ vms[n].cpus <= 16
          /\ vms[n].ram >= 256 /\ vms[n].ram <= 131072)
  /\ [][(last'.op = "svc_start" /\ last'.name \in DOMAIN vms) =>
          /\ vms[last'.name].cpus >= 1 /\ vms[last'.name].cpus <= 16
          /\ vms[last'.name].ram >= 256 /\ vms[last'.name].ram <= 131072]_vars

C22_DeleteVmLeavesDisk ==
  [][last'.op = "delete" =>
       /\ files' = files
       /\ disks' = disks
       /\ DOMAIN vms' \subseteq DOMAIN vms
       /\ \A m \in DOMAIN vms \ {last'.name} :
            m \in DOMAIN vms' /\ vms'[m] = vms[m]
       /\ last'.msg = "deleted" => last'.name \notin DOMAIN vms'
       /\ last'.msg = "declined" => vms' = vms]_vars

\* A confirmed delete has removed a record while the disk image it pointed
\* to, its disk record and another VM's record are still there.
C22_Witness ==
  /\ last.op = "delete"
  /\ last.msg = "deleted"
  /\ last.name \notin DOMAIN vms
  /\ VmDisk \in files
  /\ VmDisk \in DOMAIN disks
  /\ \E m \in DOMAIN vms : m # last.name /\ vms[m].disk = VmDisk

\* C23: a delete_disk step of the service that answers True leaves neither
\* the file nor the record of the path; one that answers False leaves files
\* and records exactly as they were; and the step never turns the path into
\* a record without a file.
C23_DeleteDiskAtomic ==
  [][last'.op = "svc_delete_disk" =>
       /\ last'.msg = "true" =>
            last'.name \notin files' /\ last'.name \notin DOMAIN disks'
       /\ last'.msg = "false" => files' = files /\ disks' = disks
       /\ (last'.name \in DOMAIN disks' /\ last'.name \notin files') =>
            (last'.name \in DOMAIN disks /\ last'.name \notin files)]_vars

\* C29: a create_disk step of the service that answers True leaves the file
\* and a record under its path; one that answers False leaves no new file
\* and no new record.
C29_CreateDiskAllOrNothing ==
  [][last'.op = "svc_create_disk" =>
       /\ last'.msg = "true" =>
            last'.name \in files' /\ last'.name \in DOMAIN disks'
       /\ last'.msg = "false" => files' = files /\ disks' = disks]_vars

\* C24: the timer's tick never runs while the confirmation prompt of
\* shutdown is open, and a confirmed shutdown always finds the entry that
\* its check saw in running_processes.
C24_TickNeverInterleaves ==
  [][/\ last'.op = "tick" => dialog = NoDialog
     /\ (dialog.op = "shutdown" /\ dialog' = NoDialog /\ last'.msg # "declined")
          => dialog.name \in DOMAIN running_processes]_vars

\* C25: after a save_config step the VM that find_by_name returns for the
\* saved name has the disk, iso, cpus, ram and os of the form, and its video
\* adapter and boot order, as build_command reads them, are those selected
\* in the form, so that the command carries them.
C25_SaveRoundTrip ==
  [][last'.op = "save" =>
       /\ last'.name \in DOMAIN vms'
       /\ LET vm == FindByName(vms', last'.name)
              cmd == BuildCommand(vm, NoVideo, NoAudio, NoUSB, settings) IN
          /\ vm.disk = form.disk
          /\ vm.iso = form.iso
          /\ vm.cpus = form.cpus
          /\ vm.ram = form.ram
          /\ vm.os = form.os
          /\ VgaOf(vm) = form.vga
          /\ BootOrderOf(vm) = form.boot_order
          /\ HasPair(cmd, "-vga", form.vga)
          /\ DiskFirst(vm) <=> form.boot_order = DiskFirstText]_vars

\* A process was spawned in this step and registered under name n.
SpawnedAndRegistered(n) ==
  /\ n \in DOMAIN running_processes'
  /\ procs[running_processes'[n]] = Free
  /\ procs'[running_processes'[n]] # Free

\* C26: start_vm of the service answers True exactly when the step spawned
\* a process and registered it under the name; stop_vm answers True exactly
\* when the name was registered before the step and is not after it; a step
\* that answers False leaves running_processes and the process table alone.
C26_ServiceResultsFaithful ==
  [][/\ last'.op = "svc_start" =>
          (last'.msg = "true" <=> SpawnedAndRegistered(last'.name))
     /\ last'.op = "svc_stop" =>
          (last'.msg = "true" <=>
             /\ last'.name \in DOMAIN running_processes
             /\ last'.name \notin DOMAIN running_processes')
     /\ (last'.op \in {"svc_start", "svc_stop"} /\ last'.msg = "false") =>
          running_processes' = running_processes /\ procs' = procs]_vars

\* C27: every name in running_vms or holding a handle in running_processes
\* is the name of a VM stored in vms.json.
C27_RegistryNamesStored ==
  (running_vms \cup DOMAIN running_processes) \subseteq DOMAIN vms

\* C28: in every state of the window every name with a handle in
\* running_processes is in running_vms, and right after a tick the two key
\* sets are equal.
C28_RunningMapsConsistent ==
  /\ DOMAIN running_processes \subseteq running_vms
  /\ last.op = "tick" => running_vms = DOMAIN running_processes

\* A tick has run while a started VM holds its handle.
C28_Witness ==
  /\ last.op = "tick"
  /\ running_vms # {}
  /\ running_vms = DOMAIN running_processes

\* The step has asked process p to terminate, or p was not alive any more.
TerminationRequested(p) ==
  Alive(procs, p) => (procs'[p].termSent \/ ~Alive(procs', p))

\* C30: a closeEvent step requests termination for the process of every VM
\* that is in running_vms when it runs: the process behind the VM's handle,
\* or, for a VM marked as running at startup, the live QEMU processes it was
\* marked for.
C30_CloseStopsAllRunning ==
  [][last'.op = "close" =>
       \A n \in running_vms :
         IF n \in DOMAIN running_processes
         THEN TerminationRequested(running_processes[n])
         ELSE \A p \in Pids : CmdLineMatches(p, n) => TerminationRequested(p)]_vars

====
